---------------------------- MODULE Spec2Model ----------------------------
(***************************************************************************)
(* Model of fix_contentservice.py: a straight-line script that reads       *)
(* contentService.ts, applies two re.sub rewrites (Rule A, Rule B) to the  *)
(* text and writes the result back to the same path.                       *)
(*                                                                         *)
(* Text is a sequence of tokens.  A token stands for a fixed, non-empty    *)
(* run of characters; every literal of the two patterns and of the two     *)
(* replacement templates is a token (or several), and every token is       *)
(* homogeneous for the character classes the patterns use (\s, [^,}],      *)
(* [^}], .), so a class matches a token exactly when it matches each of    *)
(* its characters.  The matcher below is a backtracking matcher with the   *)
(* priorities of Python's re: greedy quantifiers try the longest run       *)
(* first, the lazy one the shortest first, and re.sub scans left to right  *)
(* for non-overlapping matches.                                            *)
(***************************************************************************)
EXTENDS Integers, Sequences, FiniteSets, TLC

VARIABLES
    pc,         \* the statement the script is at
    diskKind,   \* the file at the path: "text", "missing" or "undecodable"
    disk,       \* the file's content
    content,    \* the script's variable content
    rHandle,    \* the handle opened for reading is open
    wHandle,    \* the handle opened for writing is open
    printed,    \* number of confirmation lines printed
    error,      \* the unhandled error the process ended with, or "none"
    origKind,   \* history: diskKind when the script started
    orig,       \* history: disk when the script started
    readText,   \* history: the text f.read() returned
    wOpened,    \* history: the file has been opened for writing
    steps,      \* history: the steps completed, in order
    extWrites,  \* history: number of modifications by another process
    extText     \* history: the text another process last wrote

vars == <<pc, diskKind, disk, content, rHandle, wHandle, printed, error,
          origKind, orig, readText, wOpened, steps, extWrites, extText>>

(***************************************************************************)
(* Bounds.                                                                 *)
(***************************************************************************)
\* Largest number of segments an input text is assembled from.
MaxSegs == 3
\* Largest number of modifications another process makes to the file.
MaxExt == 1
\* Number of tokens one flush of the write buffer carries to the file.
BufTokens == 8

(***************************************************************************)
(* Character classes, lifted to tokens.                                    *)
(***************************************************************************)
\* \s
IsSpace(t) == t \in {" ", "\n"}

\* Whether token t is in the class named cls.
InClass(cls, t) ==
    CASE cls = "space"         -> IsSpace(t)
      [] cls = "notCommaBrace" -> t \notin {",", "}"}
      [] cls = "notBrace"      -> t # "}"
      [] cls = "any"           -> TRUE

(***************************************************************************)
(* Pattern items.                                                          *)
(***************************************************************************)
Lit(t)    == [kind |-> "lit",  tok |-> t,  cls |-> "any"]
Plus(c)   == [kind |-> "plus", tok |-> "", cls |-> c]
Star(c)   == [kind |-> "star", tok |-> "", cls |-> c]
Lazy(c)   == [kind |-> "lazy", tok |-> "", cls |-> c]

\* (\s+return\s+{\s*success:\s*<flag>,\s*data:\s*[^,}]+,)  -- items 1..14
HeadItems(flag) ==
    << Plus("space"), Lit("return"), Plus("space"), Lit("{"), Star("space"),
       Lit("success:"), Star("space"), Lit(flag), Lit(","), Star("space"),
       Lit("data:"), Star("space"), Plus("notCommaBrace"), Lit(",") >>

\* Rule A's pattern; groups 1 and 2 as ranges of items.
PatternA ==
    HeadItems("true") \o
    << Star("space"), Lit("message:"), Star("space"), Plus("notBrace"),
       Star("space"), Lit("}"), Lit(";"), Star("space") >>
GroupsA == << <<1, 14>>, <<19, 22>> >>

\* Rule B's pattern; groups 1, 2 and 3 as ranges of items.
PatternB ==
    HeadItems("false") \o
    << Star("space"), Lit("message:"), Star("space"),
       Lit("error.response"), Lazy("any"),
       Star("space"),
       Star("space"), Lit("}"), Lit(";"), Star("space") >>
GroupsB == << <<1, 14>>, <<18, 19>>, <<21, 24>> >>

(***************************************************************************)
(* Replacement templates: a token, or a reference to a group.              *)
(***************************************************************************)
Toks(ts) == [ref |-> 0, toks |-> ts]
Ref(g)   == [ref |-> g, toks |-> << >>]

\* timestamp: new Date().toISOString()
Timestamp == << "timestamp:", " ", "new", " ", "Date().toISOString()" >>

\* r'\1 timestamp: new Date().toISOString()\2'
TemplateA == << Ref(1), Toks(<< " " >> \o Timestamp), Ref(2) >>

\* The token the template's \'SERVICE_ERROR\' becomes: in a raw string the
\* backslashes stay, and re.sub leaves the unknown escape \' alone.
ServiceErrorLiteral == "\\'SERVICE_ERROR\\'"

\* r'\1 error: { code: \'SERVICE_ERROR\', message: \2 }, timestamp: new Date().toISOString()\3'
TemplateB ==
    << Ref(1),
       Toks(<< " ", "error:", " ", "{", " ", "code:", " ", ServiceErrorLiteral,
               ",", " ", "message:", " " >>),
       Ref(2),
       Toks(<< " ", "}", ",", " " >> \o Timestamp),
       Ref(3) >>

(***************************************************************************)
(* The matcher.                                                            *)
(***************************************************************************)
NoMatch == [ok |-> FALSE, ends |-> << >>]

\* Least element of a non-empty set of integers.
Least(S) == CHOOSE n \in S : \A m \in S : n <= m

\* Number of consecutive tokens of class cls in text from position pos.
Run(text, cls, pos) ==
    CHOOSE k \in 0 .. (Len(text) - pos + 1) :
        /\ pos + k <= Len(text) => ~InClass(cls, text[pos + k])
        /\ \A q \in pos .. (pos + k - 1) : InClass(cls, text[q])

RECURSIVE MatchFrom(_, _, _, _)
RECURSIVE TryCount(_, _, _, _, _, _, _)

\* Item i of re takes k tokens at pos; when the rest does not match, the
\* next count in priority order is tried (a greedy item gives one token
\* back, the lazy one takes one more), while it lies in lo..hi.
TryCount(text, re, i, pos, k, lo, hi) ==
    IF k < lo \/ k > hi THEN NoMatch
    ELSE LET r == MatchFrom(text, re, i + 1, pos + k)
         IN  IF r.ok
             THEN [ok |-> TRUE, ends |-> << pos + k >> \o r.ends]
             ELSE TryCount(text, re, i, pos,
                           IF re[i].kind = "lazy" THEN k + 1 ELSE k - 1, lo, hi)

\* Items i.. of re matched at position pos: the position after each item.
MatchFrom(text, re, i, pos) ==
    IF i > Len(re) THEN [ok |-> TRUE, ends |-> << >>]
    ELSE IF re[i].kind = "lit"
    THEN IF pos <= Len(text) /\ text[pos] = re[i].tok
         THEN LET r == MatchFrom(text, re, i + 1, pos + 1)
              IN  IF r.ok
                  THEN [ok |-> TRUE, ends |-> << pos + 1 >> \o r.ends]
                  ELSE NoMatch
         ELSE NoMatch
    ELSE LET hi == Run(text, re[i].cls, pos)
             lo == IF re[i].kind = "plus" THEN 1 ELSE 0
         IN  TryCount(text, re, i, pos,
                      IF re[i].kind = "lazy" THEN lo ELSE hi, lo, hi)

\* The whole pattern at position pos.
MatchAt(text, re, pos) == MatchFrom(text, re, 1, pos)

\* Where item i of a match at pos began.
ItemStart(pos, ends, i) == IF i = 1 THEN pos ELSE ends[i - 1]

\* The text of group g (a range of items) of a match at pos.
GroupText(text, pos, ends, g) ==
    SubSeq(text, ItemStart(pos, ends, g[1]), ends[g[2]] - 1)

\* The template with its group references filled in.
RECURSIVE Expand(_, _, _, _, _)
Expand(tmpl, groups, text, pos, ends) ==
    IF tmpl = << >> THEN << >>
    ELSE (IF Head(tmpl).ref = 0
          THEN Head(tmpl).toks
          ELSE GroupText(text, pos, ends, groups[Head(tmpl).ref]))
         \o Expand(Tail(tmpl), groups, text, pos, ends)

\* The matches re.sub finds scanning from pos: the leftmost one, then those
\* from where it ended (matches do not overlap; none is empty).
RECURSIVE Scan(_, _, _)
Scan(text, re, pos) ==
    LET starts == { p \in pos .. Len(text) : MatchAt(text, re, p).ok }
    IN  IF starts = {} THEN << >>
        ELSE LET p == Least(starts)
                 m == MatchAt(text, re, p)
             IN  << [at |-> p, ends |-> m.ends] >>
                 \o Scan(text, re, m.ends[Len(re)])

\* The text from pos on with each match of ms replaced.
RECURSIVE Replace(_, _, _, _, _)
Replace(text, ms, groups, tmpl, pos) ==
    IF ms = << >> THEN SubSeq(text, pos, Len(text))
    ELSE LET m == Head(ms)
         IN  SubSeq(text, pos, m.at - 1)
             \o Expand(tmpl, groups, text, m.at, m.ends)
             \o Replace(text, Tail(ms), groups, tmpl, m.ends[Len(m.ends)])

\* re.sub(pattern, template, text)
Sub(text, re, groups, tmpl) ==
    Replace(text, Scan(text, re, 1), groups, tmpl, 1)

RuleA(text) == Sub(text, PatternA, GroupsA, TemplateA)
RuleB(text) == Sub(text, PatternB, GroupsB, TemplateB)

\* The text the script writes for the text it read.
Transform(text) == RuleB(RuleA(text))


(***************************************************************************)
(* Input texts: up to MaxSegs segments, each a return block or one token.  *)
(***************************************************************************)
\* " return {success: <flag>,data: x, message:<msg> }" without its end
Block(flag, msg) ==
    << " ", "return", " ", "{", "success:", flag, ",", "data:", "x", ",",
       " ", "message:" >> \o msg \o << " ", "}" >>

Segments ==
    { Block("true", << "x" >>) \o << ";" >>,
      Block("false", << "error.response", "x" >>) \o << ";" >>,
      Block("false", << "error.response" >>),
      Block("false", << "x" >>) \o << ";" >>,
      << "\n" >>, << "x" >> }

RECURSIVE Texts(_)
Texts(n) ==
    IF n = 0 THEN { << >> }
    ELSE Texts(n - 1) \cup { t \o s : t \in Texts(n - 1), s \in Segments }

Inputs == Texts(MaxSegs)

\* The texts another process writes.
ExtTexts == { << "x" >>, Block("true", << "x" >>) \o << ";" >> }


(***************************************************************************)
(* The script.                                                             *)
(***************************************************************************)
\* Stands for file content that is not valid UTF-8.
Undecodable == << "\\xff" >>

Init ==
    /\ pc = "openRead"
    /\ \/ diskKind = "text" /\ disk \in Inputs
       \/ diskKind = "missing" /\ disk = << >>
       \/ diskKind = "undecodable" /\ disk = Undecodable
    /\ origKind = diskKind
    /\ orig = disk
    /\ content = << >>
    /\ readText = << >>
    /\ rHandle = FALSE
    /\ wHandle = FALSE
    /\ wOpened = FALSE
    /\ printed = 0
    /\ error = "none"
    /\ steps = << >>
    /\ extWrites = 0
    /\ extText = << >>

\* The process ends with the unhandled error e; its handles are released.
Raise(e) ==
    /\ pc' = "crashed"
    /\ error' = e
    /\ rHandle' = FALSE
    /\ wHandle' = FALSE

\* A faulty variant of OpenRead: a mode that creates the file when it is missing.
OpenReadCreating ==
    /\ pc = "openRead"
    /\ pc' = "read"
    /\ rHandle' = TRUE
    /\ diskKind' = IF diskKind = "missing" THEN "text" ELSE diskKind
    /\ UNCHANGED <<disk, content, wHandle, printed, error, origKind, orig,
                   readText, wOpened, steps, extWrites, extText>>

\* open(path, 'r', encoding='utf-8')
OpenRead ==
    /\ pc = "openRead"
    /\ IF diskKind = "missing"
       THEN Raise("FileNotFoundError")
       ELSE /\ pc' = "read"
            /\ rHandle' = TRUE
            /\ UNCHANGED <<wHandle, error>>
    /\ UNCHANGED <<diskKind, disk, content, printed, origKind, orig,
                   readText, wOpened, steps, extWrites, extText>>

\* content = f.read()
ReadAll ==
    /\ pc = "read"
    /\ IF diskKind = "undecodable"
       THEN /\ Raise("UnicodeDecodeError")
            /\ UNCHANGED <<content, readText>>
       ELSE /\ content' = disk
            /\ readText' = disk
            /\ pc' = "closeRead"
            /\ UNCHANGED <<rHandle, wHandle, error>>
    /\ UNCHANGED <<diskKind, disk, printed, origKind, orig, wOpened, steps,
                   extWrites, extText>>

\* The end of the first with block.
CloseRead ==
    /\ pc = "closeRead"
    /\ rHandle' = FALSE
    /\ steps' = Append(steps, "read")
    /\ pc' = "ruleA"
    /\ UNCHANGED <<diskKind, disk, content, wHandle, printed, error, origKind,
                   orig, readText, wOpened, extWrites, extText>>

\* content = re.sub(<Rule A>, content)
ApplyRuleA ==
    /\ pc = "ruleA"
    /\ content' = RuleA(content)
    /\ steps' = Append(steps, "ruleA")
    /\ pc' = "ruleB"
    /\ UNCHANGED <<diskKind, disk, rHandle, wHandle, printed, error, origKind,
                   orig, readText, wOpened, extWrites, extText>>

\* content = re.sub(<Rule B>, content)
ApplyRuleB ==
    /\ pc = "ruleB"
    /\ content' = RuleB(content)
    /\ steps' = Append(steps, "ruleB")
    /\ pc' = "openWrite"
    /\ UNCHANGED <<diskKind, disk, rHandle, wHandle, printed, error, origKind,
                   orig, readText, wOpened, extWrites, extText>>

\* open(path, 'w', encoding='utf-8'): the file is created or truncated.
OpenWrite ==
    /\ pc = "openWrite"
    /\ wHandle' = TRUE
    /\ wOpened' = TRUE
    /\ diskKind' = "text"
    /\ disk' = << >>
    /\ pc' = "write"
    /\ UNCHANGED <<content, rHandle, printed, error, origKind, orig, readText,
                   steps, extWrites, extText>>

\* open(path, 'w') refused: the write handle is never opened.
OpenWriteFail ==
    /\ pc = "openWrite"
    /\ Raise("PermissionError")
    /\ UNCHANGED <<diskKind, disk, content, printed, origKind, orig, readText,
                   wOpened, steps, extWrites, extText>>

\* A faulty variant of TextToWrite: the file is read again when the write begins.
TextToWriteReread == IF extWrites > 0 THEN Transform(extText) ELSE content

\* The argument of f.write.
TextToWrite == content

\* f.write(content), as far as a flush of the buffer: a longer part of the
\* text reaches the file.
WriteChunk ==
    /\ pc = "write"
    /\ Len(disk) + BufTokens < Len(TextToWrite)
    /\ disk' = SubSeq(TextToWrite, 1, Len(disk) + BufTokens)
    /\ UNCHANGED <<pc, diskKind, content, rHandle, wHandle, printed, error,
                   origKind, orig, readText, wOpened, steps, extWrites, extText>>

\* A faulty variant of CloseWrite: the handle is dropped without the final flush.
CloseWriteNoFlush ==
    /\ pc = "write"
    /\ wHandle' = FALSE
    /\ steps' = Append(steps, "write")
    /\ pc' = "print"
    /\ UNCHANGED <<diskKind, disk, content, rHandle, printed, error, origKind,
                   orig, readText, wOpened, extWrites, extText>>

\* The end of the second with block: the rest is flushed, the handle closed.
CloseWrite ==
    /\ pc = "write"
    /\ disk' = TextToWrite
    /\ wHandle' = FALSE
    /\ steps' = Append(steps, "write")
    /\ pc' = "print"
    /\ UNCHANGED <<diskKind, content, rHandle, printed, error, origKind, orig,
                   readText, wOpened, extWrites, extText>>

\* A faulty variant of PrintFixed: the line is printed before the file is written.
PrintEarly ==
    /\ pc \in {"openWrite", "print"}
    /\ printed' = printed + 1
    /\ steps' = Append(steps, "print")
    /\ pc' = IF pc = "print" THEN "done" ELSE pc
    /\ UNCHANGED <<diskKind, disk, content, rHandle, wHandle, error, origKind,
                   orig, readText, wOpened, extWrites, extText>>

\* print("Fixed contentService.ts")
PrintFixed ==
    /\ pc = "print"
    /\ printed' = printed + 1
    /\ steps' = Append(steps, "print")
    /\ pc' = "done"
    /\ UNCHANGED <<diskKind, disk, content, rHandle, wHandle, error, origKind,
                   orig, readText, wOpened, extWrites, extText>>

\* The process is stopped from outside at any statement; what the write
\* buffer still holds is lost.
Kill ==
    /\ pc \notin {"done", "crashed"}
    /\ Raise("killed")
    /\ UNCHANGED <<diskKind, disk, content, printed, origKind, orig, readText,
                   wOpened, steps, extWrites, extText>>

\* Another process rewrites the file after the script's read has completed
\* and before its write begins; the script holds no lock.
ExternalModify ==
    /\ pc \in {"ruleA", "ruleB", "openWrite"}
    /\ extWrites < MaxExt
    /\ \E t \in ExtTexts :
          /\ t # disk
          /\ disk' = t
          /\ extText' = t
    /\ diskKind' = "text"
    /\ extWrites' = extWrites + 1
    /\ UNCHANGED <<pc, content, rHandle, wHandle, printed, error, origKind,
                   orig, readText, wOpened, steps>>

Next ==
    \/ OpenRead
    \/ ReadAll
    \/ CloseRead
    \/ ApplyRuleA
    \/ ApplyRuleB
    \/ OpenWrite
    \/ OpenWriteFail
    \/ WriteChunk
    \/ CloseWrite
    \/ PrintFixed
    \/ Kill

\* The script alone.
Spec == Init /\ [][Next]_vars

NextEnv ==
    \/ Next
    \/ ExternalModify

\* The script and another process writing the same file.
SpecEnv == Init /\ [][NextEnv]_vars


(***************************************************************************)
(* Shapes and measures the properties below are stated with.               *)
(***************************************************************************)
Range(seq) == { seq[i] : i \in 1 .. Len(seq) }

IsPrefix(a, b) == Len(a) <= Len(b) /\ SubSeq(b, 1, Len(a)) = a

\* Number of places where blk occurs in text.
Occurrences(text, blk) ==
    Cardinality({ p \in 1 .. (Len(text) - Len(blk) + 1) :
                      SubSeq(text, p, p + Len(blk) - 1) = blk })

\* Opening minus closing braces among the first n tokens of cap.
Depth(cap, n) ==
    Cardinality({ i \in 1 .. n : cap[i] = "{" })
        - Cardinality({ i \in 1 .. n : cap[i] = "}" })

\* cap closes no brace that it did not open.
NoStrayClose(cap) == \A n \in 1 .. Len(cap) : Depth(cap, n) >= 0

\* The places of the return blocks in text that Rule A's pattern matches and
\* that have no timestamp field: where each one's `return` stands.
BlocksA(text) ==
    { p \in 2 .. Len(text) :
        /\ text[p] = "return"
        /\ LET m == MatchAt(text, PatternA, p - 1)
           IN  /\ m.ok
               /\ "timestamp:" \notin
                      Range(GroupText(text, p - 1, m.ends, << 18, 18 >>)) }

\* The places of the return blocks in text that Rule B's pattern matches with
\* the message expression inside the block.
BlocksB(text) ==
    { p \in 2 .. Len(text) :
        /\ text[p] = "return"
        /\ LET m == MatchAt(text, PatternB, p - 1)
           IN  /\ m.ok
               /\ NoStrayClose(GroupText(text, p - 1, m.ends, GroupsB[2])) }

\*  return { success: true, data: <expr>, timestamp: new Date().toISOString() }
ShapeDoneA ==
    HeadItems("true") \o
    << Star("space"), Lit("timestamp:"), Star("space"), Lit("new"),
       Plus("space"), Lit("Date().toISOString()"), Star("space"), Lit("}") >>

\*  return { success: false, data: <expr>, error: { code: 'SERVICE_ERROR',
\*  message: error.response... }, timestamp: new Date().toISOString() }
ShapeDoneB ==
    HeadItems("false") \o
    << Star("space"), Lit("error:"), Star("space"), Lit("{"), Star("space"),
       Lit("code:"), Star("space"), Lit("'SERVICE_ERROR'"), Lit(","),
       Star("space"), Lit("message:"), Star("space"), Lit("error.response"),
       Lazy("any"), Star("space"), Lit("}"), Lit(","), Star("space"),
       Lit("timestamp:"), Star("space"), Lit("new"), Plus("space"),
       Lit("Date().toISOString()"), Star("space"), Lit("}") >>

\* Number of blocks of text of the given shape.
CountShape(text, shape) ==
    Cardinality({ p \in 2 .. Len(text) :
                      text[p] = "return" /\ MatchAt(text, shape, p - 1).ok })

\* A success: false block whose message does not start with error.response.
OtherBlock == Block("false", << "x" >>) \o << ";" >>

AllSteps == << "read", "ruleA", "ruleB", "write", "print" >>

(***************************************************************************)
(* Properties.                                                             *)
(***************************************************************************)

\* C1: when the script has finished, every return block of the text read
\* that has the shape of Rule A and no timestamp field has been rewritten:
\* no such block is left with its message field, and each has become a
\* `success: true, data: <expr>, timestamp: new Date().toISOString()` block.
C1_EveryBlockARewritten ==
    pc = "done" =>
        /\ BlocksA(disk) = {}
        /\ CountShape(disk, ShapeDoneA)
               = CountShape(readText, ShapeDoneA) + Cardinality(BlocksA(readText))

\* C2: when the script has finished, every return block of the text read
\* that has the shape of Rule B reads `success: false, data: <expr>, error:
\* { code: 'SERVICE_ERROR', message: <expr> }, timestamp: new
\* Date().toISOString()`.
C2_EveryBlockBRewritten ==
    pc = "done" =>
        CountShape(disk, ShapeDoneB)
            = CountShape(readText, ShapeDoneB) + Cardinality(BlocksB(readText))

\* C3: the text written back keeps every block that matches neither rule's
\* shape character for character, and equals the text read when neither
\* rule finds a match.
C3_Frame ==
    pc = "done" =>
        /\ Occurrences(disk, OtherBlock) = Occurrences(readText, OtherBlock)
        /\ (/\ Scan(readText, PatternA, 1) = << >>
            /\ Scan(RuleA(readText), PatternB, 1) = << >>) => disk = readText

\* C4: the transformation applied to the text the script wrote gives that
\* text again (a second run changes nothing).
C4_Idempotent == pc = "done" => Transform(disk) = disk

\* C5: when the file is missing or not decodable, the script ends with the
\* unhandled error of the read block; the file is not created or modified,
\* no rule is applied and nothing is printed.
C5_ReadFailure ==
    origKind # "text" =>
        /\ diskKind = origKind
        /\ disk = orig
        /\ ~wOpened
        /\ content = << >>
        /\ steps = << >>
        /\ printed = 0
        /\ pc \in (IF origKind = "missing" THEN {"openRead", "crashed"}
                   ELSE {"openRead", "read", "crashed"})
        /\ pc = "crashed" =>
               error \in {IF origKind = "missing" THEN "FileNotFoundError"
                          ELSE "UnicodeDecodeError", "killed"}

\* C5 witness: the read of an undecodable file has ended the process.
C5_DecodeFailed ==
    /\ pc = "crashed"
    /\ error = "UnicodeDecodeError"
    /\ origKind = "undecodable"
    /\ disk = orig
    /\ printed = 0

\* C6: the steps complete in the order read, Rule A, Rule B, write, print;
\* the file is as it was until it is opened for writing; the read handle is
\* released before the write handle is opened; the confirmation line is
\* printed once, after the write has completed, and never otherwise.
C6_StepOrder ==
    /\ IsPrefix(steps, AllSteps)
    /\ ~wOpened => disk = orig /\ diskKind = origKind
    /\ ~(rHandle /\ wHandle)
    /\ wOpened => ~rHandle /\ IsPrefix(<< "read", "ruleA", "ruleB" >>, steps)
    /\ printed = (IF pc = "done" THEN 1 ELSE 0)
    /\ printed = 1 =>
           /\ steps = AllSteps
           /\ disk = content
           /\ ~wHandle
           /\ error = "none"

\* C6 witness: a run that rewrote the file and printed the line.
C6_RanToTheEnd == pc = "done" /\ printed = 1 /\ disk # orig

\* C7: Rule A then Rule B gives the same text as Rule B then Rule A.
C7_OrderIndependent ==
    pc = "ruleA" => RuleB(RuleA(content)) = RuleA(RuleB(content))

\* C8: in every match Rule B makes, the captured message expression stays
\* inside the return block it starts in: it does not run past that block's
\* closing brace.
C8_CaptureLocal ==
    pc = "ruleB" =>
        LET ms == Scan(content, PatternB, 1)
        IN  \A i \in 1 .. Len(ms) :
                NoStrayClose(GroupText(content, ms[i].at, ms[i].ends, GroupsB[2]))

\* C9: whatever another process wrote between the script's read and its
\* write, the finished script has printed its line and the file holds the
\* transformation of the text the script read.
C9_StaleTextWritten ==
    pc = "done" => printed = 1 /\ disk = Transform(readText)

\* C9 witness: the other process's update is lost.
C9_UpdateLost ==
    /\ pc = "done"
    /\ printed = 1
    /\ extWrites > 0
    /\ extText # readText
    /\ disk # extText
    /\ disk # Transform(extText)

\* C10 as claimed: the file always holds the complete original text or the
\* complete transformed text.
C10_AtomicWrite ==
    origKind = "text" => disk = orig \/ disk = Transform(orig)

\* C10, amended: with no other process writing the file, it holds the
\* complete original text until it is opened for writing; from then on it
\* holds a part, from the start and possibly empty, of the transformed text,
\* and all of it once the write has completed.
C10_PrefixWritten ==
    origKind = "text" =>
        /\ ~wOpened => disk = orig
        /\ pc = "openWrite" => content = Transform(orig)
        /\ wOpened => IsPrefix(disk, content)
        /\ pc \in {"print", "done"} => disk = content
        /\ pc = "done" => disk = Transform(orig)

\* C10 witness: the process stopped during the write and left the file
\* with neither text.
C10_PartialOnDisk ==
    /\ pc = "crashed"
    /\ wOpened
    /\ disk # orig
    /\ disk # content

=============================================================================
